---- MODULE Spec2Model ----
(***************************************************************************)
(* A model of qutip.qip.device.processor.Processor: the pulse list, the    *)
(* drift, the global interpolation kind, and the operations that change    *)
(* or read them.  Python values are tagged records, so that None, a bool,  *)
(* a number, a list, a set and an ndarray stay distinguishable.            *)
(***************************************************************************)
EXTENDS Integers, Sequences, FiniteSets, TLC

VARIABLES N, spline_kind, pulses, drift, noise, file, last, old

vars == <<N, spline_kind, pulses, drift, noise, file, last, old>>

(***************************************************************************)
(* Bounds of the model.                                                    *)
(***************************************************************************)
MaxN == 3
MaxPulses == 3
MaxDrift == 3

(***************************************************************************)
(* Python values.                                                          *)
(***************************************************************************)
None == [t |-> "None"]
Str(s) == [t |-> "str", v |-> s]
Bool(b) == [t |-> "bool", v |-> b]
Num(x) == [t |-> "int", v |-> x]
PyList(s) == [t |-> "list", v |-> s]
PySet(s) == [t |-> "set", v |-> s]
NdArray(s) == [t |-> "ndarray", v |-> s]
Dict(keys) == [t |-> "dict", keys |-> keys]

\* spline_kind is kept as a plain string; NoKind stands for spline_kind=None.
NoKind == "<None>"
Kinds == {"step_func", "cubic"}

Range(s) == {s[i] : i \in DOMAIN s}

Min(S) == CHOOSE x \in S : \A y \in S : x <= y

\* range(n) as a list
PyRange(n) == [i \in 1..n |-> i - 1]

(***************************************************************************)
(* Operators handed to add_control / add_drift: a Qobj that is Hermitian,  *)
(* a Qobj that is not, and an object that is no Qobj.  nq is               *)
(* len(qobj.dims[0]).                                                      *)
(***************************************************************************)
SigmaX == [name |-> "sigmax", isQobj |-> TRUE, isherm |-> TRUE, nq |-> 1]
ZZ == [name |-> "zz", isQobj |-> TRUE, isherm |-> TRUE, nq |-> 2]
SigmaM == [name |-> "sigmam", isQobj |-> TRUE, isherm |-> FALSE, nq |-> 1]
Matrix == [name |-> "matrix", isQobj |-> FALSE, isherm |-> FALSE, nq |-> 1]

\* Pulse(qobj, targets, tlist=None, coeff=None, spline_kind=None, label=...).
\* own_kind is a history field: TRUE when the kind was given to the pulse
\* itself, FALSE when the pulse took it from the Processor.
Pulse(qobj, targets, tlist, coeff, kind, label, own) ==
    [qobj |-> qobj, targets |-> targets, tlist |-> tlist, coeff |-> coeff,
     spline_kind |-> kind, label |-> label, own_kind |-> own]

NotAPulse == [t |-> "object"]

(***************************************************************************)
(* Processor.__init__: no pulse, no drift term, the given spline_kind.     *)
(***************************************************************************)
ProcessorInit(n, kind) ==
    /\ N = n
    /\ pulses = <<>>
    /\ drift = <<>>
    /\ spline_kind = kind
    /\ noise = <<>>
    /\ file = None
    /\ last = [op |-> "__init__", err |-> "none"]
    /\ old = [pulses |-> <<>>, drift |-> <<>>, spline_kind |-> kind,
              noise |-> <<>>]

\* old is a history variable: the Processor as it was when the last
\* operation was called.
Remember ==
    old' = [pulses |-> pulses, drift |-> drift, spline_kind |-> spline_kind,
            noise |-> noise]

(***************************************************************************)
(* add_drift and add_control.                                              *)
(***************************************************************************)
CheckQobjOnly(qobj) == IF ~qobj.isQobj THEN "TypeError" ELSE "none"

\* The isinstance / isherm checks both operations start with.
CheckHamiltonian(qobj) ==
    IF ~qobj.isQobj THEN "TypeError"
    ELSE IF ~qobj.isherm THEN "ValueError"
    ELSE "none"

\* targets None -> list(range(num_qubits)); not a list -> [targets].
NormTargets(qobj, targets) ==
    IF targets = None THEN PyRange(qobj.nq)
    ELSE IF targets.t # "list" THEN <<targets.v>>
    ELSE targets.v

RotateTargetsNoWrap(targets, i, n) == [j \in DOMAIN targets |-> targets[j] + i]

\* [(t + i) % self.N for t in targets]
RotateTargets(targets, i, n) == [j \in DOMAIN targets |-> (targets[j] + i) % n]

\* The entries a call appends: one per cyclic rotation, or one.
NewTargets(targets, cyclic, n) ==
    IF cyclic THEN [k \in 1..n |-> RotateTargets(targets, k - 1, n)]
    ELSE <<targets>>

\* Drift.add_drift(qobj, targets) appends one term to drift_hamiltonians.
DriftTerm(qobj, targets) == [qobj |-> qobj.name, targets |-> targets]

AddDrift(qobj, targets, cyclic) ==
    LET err == CheckHamiltonian(qobj)
        tgs == NewTargets(NormTargets(qobj, targets), cyclic, N)
    IN  /\ err = "none" => Len(drift) + Len(tgs) <= MaxDrift
        /\ drift' = IF err = "none"
                    THEN drift \o [k \in DOMAIN tgs |-> DriftTerm(qobj, tgs[k])]
                    ELSE drift
        /\ last' = [op |-> "add_drift", err |-> err, qobj |-> qobj,
                    targets |-> targets, cyclic |-> cyclic]
        /\ Remember
        /\ UNCHANGED <<N, spline_kind, pulses, noise, file>>

\* In the cyclic branch temp_label is overwritten by label (line 191).
CyclicLabel(label, targets) == label

AddControl(qobj, targets, cyclic, label) ==
    LET err == CheckHamiltonian(qobj)
        tg == NormTargets(qobj, targets)
        tgs == NewTargets(tg, cyclic, N)
        new == [k \in DOMAIN tgs |->
                  Pulse(qobj.name, tgs[k], None, None, spline_kind,
                        IF cyclic THEN CyclicLabel(label, tgs[k]) ELSE label,
                        FALSE)]
    IN  /\ err = "none" => Len(pulses) + Len(tgs) <= MaxPulses
        /\ pulses' = IF err = "none" THEN pulses \o new ELSE pulses
        /\ last' = [op |-> "add_control", err |-> err, qobj |-> qobj,
                    targets |-> targets, cyclic |-> cyclic, label |-> label]
        /\ Remember
        /\ UNCHANGED <<N, spline_kind, drift, noise, file>>

(***************************************************************************)
(* add_pulse.                                                              *)
(***************************************************************************)
AddPulse(pulse) ==
    /\ pulse # NotAPulse => Len(pulses) < MaxPulses
    /\ pulses' = IF pulse = NotAPulse THEN pulses
                 ELSE Append(pulses,
                        IF pulse.spline_kind = NoKind
                        THEN [pulse EXCEPT !.spline_kind = spline_kind]
                        ELSE pulse)
    /\ last' = [op |-> "add_pulse", pulse |-> pulse,
                err |-> IF pulse = NotAPulse THEN "ValueError" ELSE "none"]
    /\ Remember
    /\ UNCHANGED <<N, spline_kind, drift, noise, file>>

(***************************************************************************)
(* remove_pulse.  Indices are Python's: the first pulse has index 0.       *)
(***************************************************************************)
\* del s[i] for 0 <= i < len(s)
DelAt(s, i) == SubSeq(s, 1, i) \o SubSeq(s, i + 2, Len(s))

RECURSIVE InsertDesc(_, _)
InsertDesc(x, s) ==
    IF s = <<>> THEN <<x>>
    ELSE IF x >= Head(s) THEN <<x>> \o s
    ELSE <<Head(s)>> \o InsertDesc(x, Tail(s))

\* list.sort(reverse=True)
RECURSIVE SortDesc(_)
SortDesc(s) == IF s = <<>> THEN <<>> ELSE InsertDesc(Head(s), SortDesc(Tail(s)))

\* for ind in indices: del self.pulses[ind]
RECURSIVE DelEach(_, _)
DelEach(ps, inds) ==
    IF inds = <<>> THEN [pulses |-> ps, err |-> "none"]
    ELSE IF Head(inds) >= Len(ps) THEN [pulses |-> ps, err |-> "IndexError"]
    ELSE DelEach(DelAt(ps, Head(inds)), Tail(inds))

\* The order in which a list of indices is deleted: indices.sort(reverse=True).
DeletionOrder(inds) == SortDesc(inds)

\* The indices branch.  An int is wrapped in a list; a list is sorted in
\* place (the caller's list, returned as `indices`); a set is Iterable and
\* has no sort method.
RemoveByIndices(ps, indices) ==
    IF indices.t = "int"
    THEN DelEach(ps, DeletionOrder(<<indices.v>>)) @@ [indices |-> indices]
    ELSE IF indices.t = "list"
    THEN DelEach(ps, DeletionOrder(indices.v))
         @@ [indices |-> PyList(DeletionOrder(indices.v))]
    ELSE [pulses |-> ps, err |-> "AttributeError", indices |-> indices]

\* for ind, pulse in enumerate(self.pulses):
\*     if pulse.label == label: del self.pulses[ind]
\* The list iterator moves on by one whether or not an element was deleted.
RECURSIVE LabelLoop(_, _, _)
LabelLoop(ps, ind, label) ==
    IF ind >= Len(ps) THEN ps
    ELSE IF ps[ind + 1].label = label
    THEN LabelLoop(DelAt(ps, ind), ind + 1, label)
    ELSE LabelLoop(ps, ind + 1, label)

RemoveByLabel(ps, label) == LabelLoop(ps, 0, label)

RemovePulse(indices, label) ==
    LET r == IF indices # None THEN RemoveByIndices(pulses, indices)
             ELSE [pulses |-> RemoveByLabel(pulses, label), err |-> "none",
                   indices |-> None]
    IN  /\ pulses' = r.pulses
        /\ last' = [op |-> "remove_pulse", err |-> r.err, indices |-> indices,
                    label |-> label, indices_after |-> r.indices]
        /\ Remember
        /\ UNCHANGED <<N, spline_kind, drift, noise, file>>

(***************************************************************************)
(* find_pulse.  pulse_dict is an attribute that neither __init__ nor any   *)
(* method of Processor sets: on a Processor it is absent.                  *)
(***************************************************************************)
Absent == [t |-> "absent"]

\* self.pulse_dict
PulseDict == Absent

\* self.pulses[i] for a Python int i: a negative index counts from the end
Subscript(ps, i) ==
    IF 0 <= i /\ i < Len(ps) THEN [err |-> "none", ret |-> ps[i + 1]]
    ELSE IF i < 0 /\ 0 - i <= Len(ps)
    THEN [err |-> "none", ret |-> ps[Len(ps) + i + 1]]
    ELSE [err |-> "IndexError"]

\* self.pulse_dict[pulse_name], inside try ... except (KeyError)
LookUp(dict, pulse_name) ==
    IF dict = Absent THEN [err |-> "AttributeError"]
    ELSE IF pulse_name \notin DOMAIN dict.keys
    THEN [err |-> "KeyError", key |-> pulse_name]
    ELSE [err |-> "none", ret |-> dict.keys[pulse_name]]

Found(ps, dict, pulse_name) ==
    IF pulse_name.t = "str"
    THEN (LET at == LookUp(dict, pulse_name.v)
          IN  IF at.err # "none" THEN at ELSE Subscript(ps, at.ret))
    ELSE IF pulse_name.t = "int" THEN Subscript(ps, pulse_name.v)
    ELSE [err |-> "TypeError"]

FindPulse(pulse_name) ==
    /\ last' = [op |-> "find_pulse", pulse_name |-> pulse_name]
                @@ Found(pulses, PulseDict, pulse_name)
    /\ Remember
    /\ UNCHANGED <<N, spline_kind, pulses, drift, noise, file>>

(***************************************************************************)
(* The pulse_mode setter.                                                  *)
(***************************************************************************)
ModeKind(mode) ==
    IF mode = "discrete" THEN "step_func"
    ELSE IF mode = "continuous" THEN "cubic"
    ELSE NoKind

PropagateKindToUnset(ps, kind) ==
    [i \in DOMAIN ps |->
        IF ps[i].own_kind THEN ps[i] ELSE [ps[i] EXCEPT !.spline_kind = kind]]

\* for pulse in self.pulses: pulse.spline_kind = spline_kind
PropagateKind(ps, kind) ==
    [i \in DOMAIN ps |-> [ps[i] EXCEPT !.spline_kind = kind, !.own_kind = FALSE]]

SetPulseMode(mode) ==
    LET kind == ModeKind(mode)
    IN  /\ spline_kind' = IF kind = NoKind THEN spline_kind ELSE kind
        /\ pulses' = IF kind = NoKind THEN pulses ELSE PropagateKind(pulses, kind)
        /\ last' = [op |-> "pulse_mode", mode |-> mode,
                    err |-> IF kind = NoKind THEN "ValueError" ELSE "none"]
        /\ Remember
        /\ UNCHANGED <<N, drift, noise, file>>

(***************************************************************************)
(* Time grids.  A time is a whole number of ticks of 1e-11, the default    *)
(* tolerance of get_full_tlist (1.0e-10) being 10 ticks.  A tlist is None, *)
(* an ndarray or a list of times, or (after an element-wise assignment     *)
(* from a flat list) a single number.                                      *)
(***************************************************************************)
DefaultTol == 10

\* np.hstack of one tlist: its points (a number counts as one point)
Points(tlist) == IF tlist.t = "int" THEN <<tlist.v>> ELSE tlist.v

\* np.unique(np.sort(np.hstack(...))) of a set of points: ascending, no repeats
RECURSIVE SortedUnique(_)
SortedUnique(S) ==
    IF S = {} THEN <<>> ELSE <<Min(S)>> \o SortedUnique(S \ {Min(S)})

\* full_tlist[1:][np.diff(full_tlist) > tol]
RECURSIVE DiffFilter(_, _, _)
DiffFilter(s, i, tol) ==
    IF i > Len(s) THEN <<>>
    ELSE (IF s[i] - s[i - 1] > tol THEN <<s[i]>> ELSE <<>>)
         \o DiffFilter(s, i + 1, tol)

CollapseNearOff(s, tol) == s

\* np.concatenate((full_tlist[:1], full_tlist[1:][np.diff(full_tlist) > tol]))
CollapseNear(s, tol) ==
    IF s = <<>> THEN <<>> ELSE <<s[1]>> \o DiffFilter(s, 2, tol)

\* The points of every pulse that has a tlist.
AllPoints(ps) ==
    UNION {Range(Points(ps[i].tlist)) : i \in {j \in DOMAIN ps : ps[j].tlist # None}}

FullTlist(ps, tol) ==
    IF \A i \in DOMAIN ps : ps[i].tlist = None THEN None
    ELSE NdArray(CollapseNear(SortedUnique(AllPoints(ps)), tol))

GetFullTlist(tol) ==
    /\ last' = [op |-> "get_full_tlist", err |-> "none", tol |-> tol,
                ret |-> FullTlist(pulses, tol)]
    /\ Remember
    /\ UNCHANGED <<N, spline_kind, pulses, drift, noise, file>>

(***************************************************************************)
(* set_all_tlist.  A list of per-pulse grids carries of |-> "grids"; a     *)
(* flat list of times does not.  The code tells neither from the other: a  *)
(* list as long as the pulse list is assigned element by element.          *)
(***************************************************************************)
GridList(s) == [t |-> "list", of |-> "grids", v |-> s]

\* tlist[i] of a list
Element(tlist, i) ==
    IF "of" \in DOMAIN tlist THEN tlist.v[i] ELSE Num(tlist.v[i])

ElementWise(ps, tlist) == tlist.t = "list" /\ Len(tlist.v) = Len(ps)

AssignTlists(ps, tlist) ==
    IF ElementWise(ps, tlist)
    THEN [i \in DOMAIN ps |-> [ps[i] EXCEPT !.tlist = Element(tlist, i)]]
    ELSE [i \in DOMAIN ps |-> [ps[i] EXCEPT !.tlist = tlist]]

SetAllTlist(tlist) ==
    /\ pulses' = AssignTlists(pulses, tlist)
    /\ last' = [op |-> "set_all_tlist", err |-> "none", tlist |-> tlist]
    /\ Remember
    /\ UNCHANGED <<N, spline_kind, drift, noise, file>>

(***************************************************************************)
(* The coeffs setter.                                                      *)
(***************************************************************************)
\* for i, coeff in enumerate(coeffs_list): self.pulses[i].coeff = coeff
AssignCoeffs(ps, coeffs_list) ==
    [i \in DOMAIN ps |->
        IF i <= Len(coeffs_list) THEN [ps[i] EXCEPT !.coeff = coeffs_list[i]]
        ELSE ps[i]]

SetCoeffs(coeffs_list) ==
    /\ pulses' = AssignCoeffs(pulses, coeffs_list)
    /\ last' = [op |-> "coeffs", coeffs |-> coeffs_list,
                err |-> IF Len(coeffs_list) > Len(pulses) THEN "IndexError"
                        ELSE "none"]
    /\ Remember
    /\ UNCHANGED <<N, spline_kind, drift, noise, file>>

(***************************************************************************)
(* _is_pulses_valid.  Its ValueError is the error "validation", which      *)
(* carries the position i of the pulse (from 0).                           *)
(***************************************************************************)
StepLengthSame(coeff_len, tlist_len) == coeff_len = tlist_len

\* coeff_len == tlist_len-1 or coeff_len == tlist_len
StepLengthOk(coeff_len, tlist_len) ==
    coeff_len = tlist_len - 1 \/ coeff_len = tlist_len

\* The loop body: what one pulse makes the validator raise.
PulseFault(pulse) ==
    IF pulse.coeff = None \/ pulse.coeff.t = "bool" THEN "none"
    ELSE IF pulse.tlist = None THEN "validation"
    ELSE IF pulse.coeff.t = "int" \/ pulse.tlist.t = "int" THEN "TypeError"
    ELSE IF pulse.spline_kind = "step_func"
    THEN (IF StepLengthOk(Len(pulse.coeff.v), Len(pulse.tlist.v))
          THEN "none" ELSE "validation")
    ELSE (IF Len(pulse.coeff.v) = Len(pulse.tlist.v) THEN "none" ELSE "validation")

\* for i, pulse in enumerate(self.pulses): the first pulse that raises
IsPulsesValid(ps) ==
    LET bad == {i \in DOMAIN ps : PulseFault(ps[i]) # "none"}
    IN  IF bad = {} THEN [err |-> "none", ret |-> TRUE]
        ELSE [err |-> PulseFault(ps[Min(bad)]), id |-> Min(bad) - 1]

CheckPulses ==
    /\ last' = [op |-> "_is_pulses_valid"] @@ IsPulsesValid(pulses)
    /\ Remember
    /\ UNCHANGED <<N, spline_kind, pulses, drift, noise, file>>

(***************************************************************************)
(* _fill_coeff: a pulse's coefficients resampled onto full_tlist.  With    *)
(* "_step_func_coeff" the value at t is that of the last local grid point  *)
(* not after t; otherwise it is the cubic spline through the local points, *)
(* known here only at those points.  Outside the local span it is 0.       *)
(***************************************************************************)
SplineValue(tlist, coeff, t) == [t |-> "spline", x |-> tlist, y |-> coeff, at |-> t]

Max(S) == CHOOSE x \in S : \A y \in S : x >= y

FillStep(coeff, tlist, full) ==
    LET c == IF Len(coeff) = Len(tlist) - 1 THEN coeff \o <<0>> ELSE coeff
    IN  [err |-> "none",
         row |-> [n \in DOMAIN full |->
                    IF full[n] < tlist[1] \/ full[n] > tlist[Len(tlist)]
                    THEN Num(0)
                    ELSE Num(c[Max({j \in DOMAIN tlist : tlist[j] <= full[n]})])]]

\* CubicSpline(old_tlist, old_coeffs) needs as many values as points.
FillCubic(coeff, tlist, full) ==
    IF Len(coeff) # Len(tlist) THEN [err |-> "ValueError"]
    ELSE [err |-> "none",
          row |-> [n \in DOMAIN full |->
                     IF full[n] < tlist[1] \/ full[n] > tlist[Len(tlist)]
                     THEN Num(0)
                     ELSE IF \E j \in DOMAIN tlist : tlist[j] = full[n]
                     THEN Num(coeff[CHOOSE j \in DOMAIN tlist : tlist[j] = full[n]])
                     ELSE SplineValue(tlist, coeff, full[n])]]

FillCoeff(coeff, tlist, full, kind) ==
    IF kind = "step_func" THEN FillStep(coeff, tlist, full)
    ELSE FillCubic(coeff, tlist, full)

(***************************************************************************)
(* get_full_coeffs.                                                        *)
(***************************************************************************)
\* np.zeros(len(full_tlist)), np.ones(len(full_tlist)): len(None) raises
Constant(x, full) ==
    IF full = None THEN [err |-> "TypeError"]
    ELSE [err |-> "none", row |-> [n \in DOMAIN full.v |-> Num(x)]]

\* The kind get_full_coeffs resamples a pulse by: self.spline_kind.
ResampleKind(pulse, kind) == kind

\* One pass of the loop over self.pulses.
CoeffRow(pulse, kind, full) ==
    IF pulse.tlist = None /\ pulse.coeff = None THEN Constant(0, full)
    ELSE IF pulse.coeff.t \notin {"bool", "ndarray"} THEN [err |-> "ValueError"]
    ELSE IF pulse.coeff.t = "bool"
    THEN Constant(IF pulse.coeff.v THEN 1 ELSE 0, full)
    ELSE FillCoeff(pulse.coeff.v, Points(pulse.tlist), full.v,
                   ResampleKind(pulse, kind))

FullCoeffs(ps, kind, full_tlist) ==
    LET valid == IsPulsesValid(ps)
        full == IF full_tlist = None THEN FullTlist(ps, DefaultTol) ELSE full_tlist
        rows == [i \in DOMAIN ps |-> CoeffRow(ps[i], kind, full)]
        bad == {i \in DOMAIN ps : rows[i].err # "none"}
    IN  IF valid.err # "none" THEN valid
        ELSE IF ps = <<>> THEN [err |-> "none", ret |-> NdArray(<<Num(0), Num(0)>>)]
        ELSE IF bad # {} THEN [err |-> rows[Min(bad)].err]
        ELSE [err |-> "none", ret |-> NdArray([i \in DOMAIN ps |-> rows[i].row])]

PaddedInPlace(pulse, kind) ==
    IF kind = "step_func" /\ Len(pulse.coeff.v) = Len(Points(pulse.tlist)) - 1
    THEN [pulse EXCEPT !.coeff.v = @ \o <<0>>]
    ELSE pulse

\* A pulse after _fill_coeff(pulse.coeff, pulse.tlist, full_tlist, arg): the
\* arrays it is handed are the pulse's own, and it leaves them as they are
\* (the padded coefficients are a new array).
LeftByFill(pulse, kind) == pulse

\* The pulses after get_full_coeffs: those the loop has handed to
\* _fill_coeff, up to the first pulse it raises for.
AfterFullCoeffs(ps, kind, full_tlist) ==
    LET full == IF full_tlist = None THEN FullTlist(ps, DefaultTol) ELSE full_tlist
        bad == {i \in DOMAIN ps : CoeffRow(ps[i], kind, full).err # "none"}
    IN  IF IsPulsesValid(ps).err # "none" THEN ps
        ELSE [i \in DOMAIN ps |->
                IF /\ ps[i].coeff # None
                   /\ ps[i].coeff.t = "ndarray"
                   /\ \A j \in bad : i <= j
                THEN LeftByFill(ps[i], ResampleKind(ps[i], kind))
                ELSE ps[i]]

GetFullCoeffs(full_tlist) ==
    /\ last' = [op |-> "get_full_coeffs", full_tlist |-> full_tlist]
                @@ FullCoeffs(pulses, spline_kind, full_tlist)
    /\ pulses' = AfterFullCoeffs(pulses, spline_kind, full_tlist)
    /\ Remember
    /\ UNCHANGED <<N, spline_kind, drift, noise, file>>

(***************************************************************************)
(* save_coeff.  The file holds one row per time of the full tlist, each    *)
(* number written with 16 decimals: a whole number is written exactly, a   *)
(* spline value is rounded.                                                *)
(***************************************************************************)
Fmt16(x) == IF x.t = "int" THEN x ELSE [t |-> "rounded16", v |-> x]

\* coeffs.T of a 2-d array, with the times as first column when inctime
FileRows(coeffs, full, inctime) ==
    [n \in DOMAIN full |->
        (IF inctime THEN <<Fmt16(Num(full[n]))>> ELSE <<>>)
        \o [m \in DOMAIN coeffs |-> Fmt16(coeffs[m][n])]]

SaveCoeffResult(ps, kind, inctime) ==
    LET valid == IsPulsesValid(ps)
        c == FullCoeffs(ps, kind, None)
        full == FullTlist(ps, DefaultTol)
    IN  IF valid.err # "none" THEN valid
        ELSE IF c.err # "none" THEN c
        ELSE IF ps = <<>>
        THEN (IF inctime THEN [err |-> "IndexError"]
              ELSE [err |-> "none", data |-> [n \in 1..2 |-> <<Fmt16(c.ret.v[n])>>]])
        ELSE [err |-> "none", data |-> FileRows(c.ret.v, full.v, inctime)]

SaveCoeff(inctime) ==
    LET r == SaveCoeffResult(pulses, spline_kind, inctime)
    IN  /\ file' = IF r.err = "none" THEN [inctime |-> inctime, rows |-> r.data]
                   ELSE file
        /\ last' = [op |-> "save_coeff", inctime |-> inctime] @@ r
        /\ Remember
        /\ UNCHANGED <<N, spline_kind, pulses, drift, noise>>

(***************************************************************************)
(* read_coeff.  np.loadtxt gives a 2-d array, one row per line of the      *)
(* file, unless the file has one column or one line: then the array is     *)
(* 1-d.  A number read back is the number written.                         *)
(***************************************************************************)
Parse(x) == IF x.t = "int" THEN x.v ELSE x

LoadTxt2d(rows) ==
    [dim |-> 2, v |-> [n \in DOMAIN rows |->
                         [m \in DOMAIN rows[n] |-> Parse(rows[n][m])]]]

\* data = np.loadtxt(file_name, delimiter='\t')
LoadTxt(rows) ==
    IF Len(rows[1]) = 1
    THEN [dim |-> 1, v |-> [n \in DOMAIN rows |-> Parse(rows[n][1])]]
    ELSE IF Len(rows) = 1
    THEN [dim |-> 1, v |-> [m \in DOMAIN rows[1] |-> Parse(rows[1][m])]]
    ELSE LoadTxt2d(rows)

\* data[:, c] of a 2-d array
Column(data, c) == [n \in DOMAIN data |-> data[n][c]]

\* data[:, from:].T of a 2-d array: what enumerate() gives the setter
RowsOfTranspose(data, from) ==
    [m \in 1..(Len(data[1]) - from + 1) |-> NdArray(Column(data, m + from - 1))]

\* data.T of a 1-d array: enumerate() gives its numbers
Scalars(data) == [n \in DOMAIN data |-> Num(data[n])]

\* self.coeffs
Coeffs(ps) ==
    IF ps = <<>> THEN None ELSE PyList([i \in DOMAIN ps |-> ps[i].coeff])

BoundMethod(name) == [t |-> "method", name |-> name]

\* The first element returned when inctime: self.get_full_tlist, not called.
ReturnedTlist(ps) == BoundMethod("Processor.get_full_tlist")

ReadCoeffResult(ps, f, inctime) ==
    LET data == LoadTxt(f.rows)
        list == IF data.dim = 1 THEN Scalars(data.v)
                ELSE RowsOfTranspose(data.v, IF inctime THEN 2 ELSE 1)
        timed == IF inctime THEN AssignTlists(ps, NdArray(Column(data.v, 1)))
                 ELSE ps
        after == AssignCoeffs(timed, list)
    IN  IF f = None THEN [err |-> "OSError", pulses |-> ps]
        ELSE IF inctime /\ data.dim = 1
        THEN [err |-> "IndexError", pulses |-> ps]
        ELSE IF Len(list) > Len(ps)
        THEN [err |-> "IndexError", pulses |-> after]
        ELSE [err |-> "none", pulses |-> after,
              ret |-> IF inctime THEN <<ReturnedTlist(after), Coeffs(after)>>
                      ELSE Coeffs(after)]

ReadCoeff(inctime) ==
    LET r == ReadCoeffResult(pulses, file, inctime)
    IN  /\ pulses' = r.pulses
        /\ last' = [op |-> "read_coeff", inctime |-> inctime, err |-> r.err]
                    @@ (IF r.err = "none" THEN [ret |-> r.ret] ELSE [err |-> r.err])
        /\ Remember
        /\ UNCHANGED <<N, spline_kind, drift, noise, file>>

(***************************************************************************)
(* add_noise and get_noisy_pulses.  A noise object is known by its name:   *)
(* "relaxation" brings a collapse operator, "random" a fluctuation of      *)
(* every pulse, sampled every NoiseDt over the span of the pulses.         *)
(* process_noise gives back a new list: a perturbed copy of every pulse,   *)
(* and one more term carrying the collapse operators of the noise.         *)
(***************************************************************************)
MaxNoise == 2

NoiseDt == 50

NotANoise == "object"

AddNoise(n) ==
    /\ n # NotANoise => Len(noise) < MaxNoise
    /\ noise' = IF n = NotANoise THEN noise ELSE Append(noise, n)
    /\ last' = [op |-> "add_noise", noise |-> n,
                err |-> IF n = NotANoise THEN "TypeError" ELSE "none"]
    /\ Remember
    /\ UNCHANGED <<N, spline_kind, pulses, drift, file>>

\* np.arange(0, dt * num, dt)[:num] + t_min, num = floor((t_max - t_min) / dt) + 1
Arange(t_min, t_max, dt) ==
    [k \in 1..((t_max - t_min) \div dt + 1) |-> t_min + (k - 1) * dt]

\* The grid a noise samples its fluctuation on, None if it has none.
NoiseGrid(ps, n) ==
    LET full == FullTlist(ps, DefaultTol)
    IN  IF n # "random" \/ full = None THEN None
        ELSE NdArray(Arange(full.v[1], full.v[Len(full.v)], NoiseDt))

\* The grid of a perturbed copy: the points of the pulse and of its noise.
NoisyTlist(pulse, ps, ns) ==
    LET grids == {NoiseGrid(ps, ns[k]) : k \in DOMAIN ns} \ {None}
        points == UNION {Range(g.v) : g \in grids}
                  \cup (IF pulse.tlist = None THEN {}
                        ELSE Range(Points(pulse.tlist)))
    IN  IF grids = {} THEN pulse.tlist
        ELSE NdArray(CollapseNear(SortedUnique(points), DefaultTol))

\* The collapse operator a noise brings, if any.
RECURSIVE LindbladOf(_)
LindbladOf(ns) ==
    IF ns = <<>> THEN <<>>
    ELSE (IF Head(ns) = "relaxation"
          THEN <<[t |-> "c_op", of |-> Head(ns)]>> ELSE <<>>)
         \o LindbladOf(Tail(ns))

ProcessNoise(ps, ns, device_noise) ==
    [i \in DOMAIN ps |->
        [t |-> "noisy", copy_of |-> ps[i], by |-> ns,
         tlist |-> NoisyTlist(ps[i], ps, ns)]]
    \o (IF device_noise
        THEN <<[t |-> "system", c_ops |-> LindbladOf(ns)]>>
        ELSE <<>>)

\* [self.drift]: the Drift object of the Processor itself
DriftEntry(dr) == [t |-> "drift", terms |-> dr, ref |-> "self.drift"]

\* noisy_pulses += [self.drift]
NoisyPulses(ps, ns, dr, device_noise, with_drift) ==
    ProcessNoise(ps, ns, device_noise)
    \o (IF with_drift THEN <<DriftEntry(dr)>> ELSE <<>>)

\* A list object: ref tells which list it is, v what it holds.
ListObject(ref, v) == [ref |-> ref, v |-> v]

StoredList(ps) == ListObject("self.pulses", ps)

\* pulses = deepcopy(self.pulses)
DeepCopy(ps) == ListObject("copy", ps)

\* get_noisy_pulses.  process_noise is free to change the list it is handed
\* and to return that list or a new one (returns_handed); what it does to a
\* list that is self.pulses it does to the Processor.
GetNoisyPulses(device_noise, with_drift, returns_handed) ==
    LET handed == DeepCopy(pulses)
        processed == ProcessNoise(handed.v, noise, device_noise)
        returned == NoisyPulses(handed.v, noise, drift, device_noise, with_drift)
        ref == IF returns_handed THEN handed.ref ELSE "new"
    IN  /\ pulses' = IF handed.ref # "self.pulses" THEN pulses
                     ELSE IF returns_handed THEN returned
                     ELSE SubSeq(processed, 1, Len(pulses))
        /\ last' = [op |-> "get_noisy_pulses", err |-> "none",
                    device_noise |-> device_noise, drift |-> with_drift,
                    handed |-> handed, ret |-> ListObject(ref, returned)]
        /\ Remember
        /\ UNCHANGED <<N, spline_kind, drift, noise, file>>

(***************************************************************************)
(* get_qobjevo.  A QobjEvo is known by the terms merged into it, its args  *)
(* and its tlist; args is a set of keys.                                   *)
(***************************************************************************)
\* The collapse operators one term of the dynamics brings.
TermCOps(term) ==
    IF "t" \in DOMAIN term /\ term.t = "system" THEN term.c_ops ELSE <<>>

RECURSIVE CollectCOps(_)
CollectCOps(dynamics) ==
    IF dynamics = <<>> THEN <<>>
    ELSE TermCOps(Head(dynamics)) \o CollectCOps(Tail(dynamics))

\* The grid of one term, None if it has none.
TermTlist(term) == IF "tlist" \in DOMAIN term THEN term.tlist ELSE None

\* _find_common_tlist: the grids of the terms merged like those of pulses
CommonTlist(qu_list) ==
    LET with == {k \in DOMAIN qu_list : TermTlist(qu_list[k]) # None}
        points == UNION {Range(Points(TermTlist(qu_list[k]))) : k \in with}
    IN  IF with = {} THEN None
        ELSE NdArray(CollapseNear(SortedUnique(points), DefaultTol))

\* _merge_qobjevo(qu_list, full_tlist=None): without a full_tlist the
\* result is on the common grid of the terms.
MergeQobjevo(qu_list, full_tlist) ==
    [t |-> "QobjEvo", terms |-> qu_list, args |-> {},
     tlist |-> IF full_tlist = None THEN CommonTlist(qu_list) ELSE full_tlist]

QobjevoUnchecked(ps, ns, dr, args, noisy) ==
    LET dynamics == IF noisy THEN NoisyPulses(ps, ns, dr, TRUE, TRUE) ELSE ps
        c_ops == IF noisy THEN CollectCOps(dynamics) ELSE <<>>
        full == FullTlist(ps, DefaultTol)
        merged == MergeQobjevo(dynamics, None)
        final_qu == [merged EXCEPT !.args = @ \cup (IF args = None THEN {} ELSE args.keys)]
    IN  [err |-> "none",
         ret |-> <<final_qu,
                   [k \in DOMAIN c_ops |-> MergeQobjevo(<<c_ops[k]>>, full)]>>]

Qobjevo(ps, ns, dr, args, noisy) ==
    LET valid == IsPulsesValid(ps)
        dynamics == IF noisy THEN NoisyPulses(ps, ns, dr, TRUE, TRUE) ELSE ps
        c_ops == IF noisy THEN CollectCOps(dynamics) ELSE <<>>
        full == FullTlist(ps, DefaultTol)
        merged == MergeQobjevo(dynamics, None)
        final_qu == [merged EXCEPT !.args = @ \cup (IF args = None THEN {} ELSE args.keys)]
    IN  IF valid.err # "none" THEN valid
        ELSE [err |-> "none",
              ret |-> <<final_qu,
                        [k \in DOMAIN c_ops |-> MergeQobjevo(<<c_ops[k]>>, full)]>>]

GetQobjevo(args, noisy) ==
    /\ last' = [op |-> "get_qobjevo", args |-> args, noisy |-> noisy]
                @@ Qobjevo(pulses, noise, drift, args, noisy)
    /\ Remember
    /\ UNCHANGED <<N, spline_kind, pulses, drift, noise, file>>

(***************************************************************************)
(* run_analytically.  A step propagator is known by the generator and the  *)
(* time step it is the exponential of.                                     *)
(***************************************************************************)
\* U = (-1j * H * dt).expm(), H = H_drift + sum(coeffs[m, n] * ctrls[m])
StepPropagator(ps, dr, coeffs, tlist, n) ==
    [t |-> "U", drift |-> dr,
     ctrls |-> [m \in DOMAIN ps |-> <<coeffs[m][n], ps[m].qobj>>],
     dt |-> tlist[n + 1] - tlist[n]]

Analytically(ps, kind, dr, init_state) ==
    LET seed == IF init_state # None THEN <<init_state>> ELSE <<>>
        tlist == FullTlist(ps, DefaultTol)
        c == FullCoeffs(ps, kind, None)
    IN  IF c.err # "none" THEN c
        ELSE IF tlist = None THEN [err |-> "TypeError"]
        ELSE [err |-> "none",
              ret |-> seed \o [n \in 1..(Len(tlist.v) - 1) |->
                                 StepPropagator(ps, dr, c.ret.v, tlist.v, n)]]

RunAnalytically(init_state) ==
    /\ last' = [op |-> "run_analytically", init_state |-> init_state]
                @@ Analytically(pulses, spline_kind, drift, init_state)
    /\ Remember
    /\ UNCHANGED <<N, spline_kind, pulses, drift, noise, file>>

(***************************************************************************)
(* run_state.  kwargs is known by its keys and by the values of "args"     *)
(* and "c_ops".  calls lists the solver calls made, in order.              *)
(***************************************************************************)
Solvers == {"mesolve", "mcsolve"}

\* An operator handed as c_ops is a Qobj; what its += with a list does is
\* the Qobj's own affair, told by its field iadd: it raises, or it returns
\* some value that is no list.
IaddRaises(kwargs) ==
    /\ "c_ops" \in kwargs.keys
    /\ kwargs.c_ops.t = "Qobj"
    /\ kwargs.c_ops.iadd = "raises"

\* kwargs["c_ops"] after the merge with the collapse operators of the system
MergeCOps(kwargs, sys_c_ops) ==
    IF "c_ops" \in kwargs.keys
    THEN (IF kwargs.c_ops.t = "Qobj"
          THEN [t |-> "Qobj+=list", left |-> kwargs.c_ops,
                right |-> <<kwargs.c_ops>> \o sys_c_ops]
          ELSE PyList(kwargs.c_ops.v \o sys_c_ops))
    ELSE PyList(sys_c_ops)

SolverCall(solver, H, init_state, kwargs, c_ops) ==
    [solver |-> solver, H |-> H, state |-> init_state, tlist |-> H.tlist,
     keys |-> kwargs.keys \cup {"c_ops"}, c_ops |-> c_ops]

AnalyticalRefusedForKwargs(kwargs, ns) == kwargs.keys # {}

\* if kwargs or self.noise
AnalyticalRefused(kwargs, ns) == kwargs.keys # {} \/ ns # <<>>

ReservedGivenH(kwargs) == "H" \in kwargs.keys

\* if "H" in kwargs or "tlist" in kwargs
ReservedGiven(kwargs) == "H" \in kwargs.keys \/ "tlist" \in kwargs.keys

State(ps, kind, ns, dr, init_state, analytical, states, noisy, solver, kwargs) ==
    LET warned == states # None
        init == IF init_state = None THEN states ELSE init_state
        g == Qobjevo(ps, ns, dr,
                     IF "args" \in kwargs.keys THEN kwargs.args ELSE None, noisy)
        call == SolverCall(solver, g.ret[1], init, kwargs,
                           MergeCOps(kwargs, g.ret[2]))
        quiet == [warned |-> warned, calls |-> <<>>, assembled |-> FALSE]
        built == [warned |-> warned, calls |-> <<>>, assembled |-> TRUE]
    IN  IF init_state = None /\ states = None
        THEN [err |-> "usage"] @@ quiet
        ELSE IF analytical
        THEN (IF AnalyticalRefused(kwargs, ns)
              THEN [err |-> "TypeError"] @@ quiet
              ELSE Analytically(ps, kind, dr, init) @@ quiet)
        ELSE IF ReservedGiven(kwargs)
        THEN [err |-> "usage"] @@ quiet
        ELSE IF g.err # "none" THEN g @@ quiet
        ELSE IF IaddRaises(kwargs) THEN [err |-> "TypeError"] @@ built
        ELSE IF solver \notin Solvers
        THEN [err |-> "UnboundLocalError"] @@ built
        ELSE [err |-> "none", ret |-> [t |-> "Result", of |-> call],
              warned |-> warned, calls |-> <<call>>, assembled |-> TRUE]

RunState(init_state, analytical, states, noisy, solver, kwargs) ==
    /\ last' = [op |-> "run_state", init_state |-> init_state,
                analytical |-> analytical, states |-> states,
                noisy |-> noisy, solver |-> solver, kwargs |-> kwargs]
                @@ State(pulses, spline_kind, noise, drift, init_state,
                         analytical, states, noisy, solver, kwargs)
    /\ Remember
    /\ UNCHANGED <<N, spline_kind, pulses, drift, noise, file>>

(***************************************************************************)
(* Spec: the pulse list being managed.  Every operation that adds or       *)
(* removes a pulse or sets the global kind, on pulses that are still       *)
(* switched off (tlist = None, coeff = None).                              *)
(***************************************************************************)
Labels == {None, Str("a"), Str("b")}

\* (operator, targets, cyclic_permutation) handed to add_control
ControlArgs ==
    {<<SigmaX, None, FALSE>>, <<SigmaX, Num(0), FALSE>>,
     <<SigmaX, PyList(<<0>>), FALSE>>, <<ZZ, PyList(<<0, 1>>), TRUE>>,
     <<SigmaM, Num(0), FALSE>>, <<SigmaM, PyList(<<0, 1>>), TRUE>>,
     <<Matrix, None, FALSE>>, <<Matrix, None, TRUE>>}

\* (operator, targets, cyclic_permutation) handed to add_drift
DriftArgs ==
    {<<SigmaX, Num(0), FALSE>>, <<SigmaX, PyList(<<0>>), TRUE>>,
     <<SigmaM, Num(0), FALSE>>, <<SigmaM, Num(0), TRUE>>,
     <<Matrix, PyList(<<0>>), TRUE>>}

\* Pulses handed to add_pulse: labelled ones without a kind of their own,
\* unlabelled ones with one, and an object that is no Pulse.
OffPulses ==
    {Pulse("sigmax", <<0>>, None, None, NoKind, l, FALSE) : l \in Labels}
    \cup {Pulse("sigmax", <<0>>, None, None, k, None, TRUE) : k \in Kinds}
    \cup {NotAPulse}

\* indices handed to remove_pulse: an int, a list (in either order, or
\* with a repeated index), a set
IndexArgs ==
    {Num(i) : i \in 0..(MaxPulses - 1)}
    \cup {PyList(s) : s \in {<<0, 1>>, <<1, 0>>, <<0, 2>>, <<2, 1>>, <<1, 1>>}}
    \cup {PySet(s) : s \in {{0}, {0, 1}, {0, 2}}}

Init == \E k \in Kinds : ProcessorInit(MaxN, k)

Next ==
    \/ \E a \in ControlArgs, l \in Labels : AddControl(a[1], a[2], a[3], l)
    \/ \E p \in OffPulses : AddPulse(p)
    \/ \E i \in IndexArgs : RemovePulse(i, None)
    \/ \E l \in Labels : RemovePulse(None, l)
    \/ \E m \in {"discrete", "continuous", "analog"} : SetPulseMode(m)

Spec == Init /\ [][Next]_vars

(***************************************************************************)
(* Properties of the pulse list (Spec).                                    *)
(***************************************************************************)
RECURSIVE Without(_, _)
Without(ps, label) ==
    IF ps = <<>> THEN <<>>
    ELSE (IF Head(ps).label = label THEN <<>> ELSE <<Head(ps)>>)
         \o Without(Tail(ps), label)

\* C1: after remove_pulse(label=L) no pulse labelled L is left, and the
\* pulses with another label are all there, in their original order.
C1_LabelRemoved ==
    (last.op = "remove_pulse" /\ last.indices = None /\ last.label # None)
        => pulses = Without(old.pulses, last.label)

\* the positions (from 0) named by an index argument
IndexSet(indices) ==
    IF indices.t = "int" THEN {indices.v}
    ELSE IF indices.t = "list" THEN Range(indices.v)
    ELSE indices.v

\* a single valid index, or a set or list of distinct valid indices
ValidIndices(indices, n) ==
    /\ \A i \in IndexSet(indices) : 0 <= i /\ i < n
    /\ indices.t = "list" => Cardinality(Range(indices.v)) = Len(indices.v)

RECURSIVE KeepOutside(_, _, _)
KeepOutside(ps, ind, I) ==
    IF ps = <<>> THEN <<>>
    ELSE (IF ind \in I THEN <<>> ELSE <<Head(ps)>>)
         \o KeepOutside(Tail(ps), ind + 1, I)

\* C2: remove_pulse(indices=I), I a valid index or a set or list of
\* distinct valid indices, leaves exactly the pulses at the positions
\* outside I, in their original order.
C2_IndicesRemoved ==
    (last.op = "remove_pulse" /\ last.indices # None
        /\ ValidIndices(last.indices, Len(old.pulses)))
        => /\ last.err = "none"
           /\ pulses = KeepOutside(old.pulses, 0, IndexSet(last.indices))

C9_KindPropagates ==
    /\ (last.op = "pulse_mode" /\ last.err = "none")
          => /\ spline_kind = ModeKind(last.mode)
             /\ \A i \in DOMAIN pulses : pulses[i].spline_kind = spline_kind
             /\ Len(pulses) = Len(old.pulses)
    /\ \A i \in DOMAIN pulses :
          pulses[i].spline_kind # spline_kind => pulses[i].own_kind

C9_Witness ==
    /\ last.op = "pulse_mode" /\ last.err = "none"
    /\ \E i \in DOMAIN old.pulses :
          old.pulses[i].own_kind /\ old.pulses[i].spline_kind # spline_kind
    /\ \A i \in DOMAIN pulses : pulses[i].spline_kind = spline_kind

(***************************************************************************)
(* SpecHam: Hamiltonians being registered, as drift terms and as control   *)
(* pulses, with and without cyclic permutation.                            *)
(***************************************************************************)
NextHam ==
    \/ \E n \in {"relaxation", NotANoise} : AddNoise(n)
    \/ \E a \in ControlArgs : AddControl(a[1], a[2], a[3], None)
    \/ \E a \in DriftArgs : AddDrift(a[1], a[2], a[3])
    \/ \E i \in {Num(0)} : RemovePulse(i, None)

SpecHam == Init /\ [][NextHam]_vars

\* C7: add_control and add_drift given an operator that is not a Hermitian
\* Qobj raise, and add no pulse and no drift term, cyclic or not.
C7_NonHermitianRejected ==
    (last.op \in {"add_control", "add_drift"}
        /\ ~(last.qobj.isQobj /\ last.qobj.isherm))
        => /\ last.err \in {"TypeError", "ValueError"}
           /\ pulses = old.pulses
           /\ drift = old.drift

C7_Witness ==
    /\ last.op = "add_drift" /\ last.cyclic /\ last.qobj = SigmaM
    /\ last.err = "ValueError" /\ Len(drift) > 0 /\ Len(pulses) > 0

(***************************************************************************)
(* SpecGrid: time grids being set and merged.                              *)
(***************************************************************************)
GA == <<0, 100, 200>>
GB == <<0, 101, 200>>
GC == <<100, 108, 116>>
GD == <<0, 100>>

\* What set_all_tlist is handed on a Processor with k pulses: one grid, as
\* an ndarray or as a list, or a list of k grids, one per pulse.
GridArgs(k) ==
    {NdArray(g) : g \in {GA, GB, GC, GD}} \cup {PyList(GD)}
    \cup {GridList(s) : s \in [1..k -> {NdArray(GA), NdArray(GB), NdArray(GC)}]}

Tols == {0, 1, 8, DefaultTol}

NextGrid ==
    \/ \E k \in {FALSE} : AddControl(SigmaX, None, k, None)
    \/ \E i \in {Num(0)} : RemovePulse(i, None)
    \/ \E g \in GridArgs(Len(pulses)) : SetAllTlist(g)
    \/ \E tol \in Tols : GetFullTlist(tol)

SpecGrid == Init /\ [][NextGrid]_vars

\* the tlists of the pulses that have one
GridsOf(ps) == {ps[i].tlist : i \in {j \in DOMAIN ps : ps[j].tlist # None}}

\* C3: get_full_tlist(tol) returns None when no pulse has a time grid, and
\* otherwise the points of all grids in strictly ascending order, any two
\* neighbours more than tol apart, a point being kept exactly when no point
\* lies at most tol below it; [0,1,2] and [0,1+1e-11,2] give [0,1,2].
C3_FullTlistMerged ==
    last.op = "get_full_tlist"
        => IF GridsOf(pulses) = {} THEN last.ret = None
           ELSE LET r == last.ret.v
                    U == AllPoints(pulses)
                IN  /\ last.ret.t = "ndarray"
                    /\ \A i \in 1..(Len(r) - 1) :
                          r[i] < r[i + 1] /\ r[i + 1] - r[i] > last.tol
                    /\ \A x \in U :
                          x \in Range(r)
                            <=> ~\E y \in U : y < x /\ x - y <= last.tol
                    /\ Range(r) \subseteq U
                    /\ (GridsOf(pulses) = {NdArray(GA), NdArray(GB)}
                          /\ last.tol = DefaultTol)
                        => r = <<0, 100, 200>>

C3_Witness ==
    /\ last.op = "get_full_tlist" /\ last.tol = DefaultTol
    /\ GridsOf(pulses) = {NdArray(GA), NdArray(GB)}
    /\ last.ret = NdArray(<<0, 100, 200>>)

\* C8: set_all_tlist(g) makes every pulse's tlist equal to g when g is one
\* grid, and gives the i-th pulse the i-th grid when g is a list of one
\* grid per pulse; no other field of a pulse changes.
C8_TlistSet ==
    last.op = "set_all_tlist"
        => /\ Len(pulses) = Len(old.pulses)
           /\ \A i \in DOMAIN pulses :
                 pulses[i] = [old.pulses[i] EXCEPT !.tlist =
                                IF "of" \in DOMAIN last.tlist
                                THEN last.tlist.v[i] ELSE last.tlist]

(***************************************************************************)
(* SpecValid: pulses are given grids and coefficients, well-formed or not, *)
(* and are read by the validator and by everything that calls it.  At most *)
(* MaxValid pulses are held, and a run ends when it has written its file.  *)
(***************************************************************************)
MaxValid == 2

G50 == <<0, 50>>

C2of == NdArray(<<5, 7>>)
C3of == NdArray(<<5, 7, 9>>)

\* Pulses handed to add_pulse: with a kind of their own, or without.
ValidPulses ==
    {Pulse("sigmax", <<0>>, NdArray(GA), c, k, None, TRUE) :
        c \in {C2of, C3of}, k \in Kinds}
    \cup {Pulse("sigmax", <<0>>, NdArray(G50), C2of, "cubic", None, TRUE),
          Pulse("sigmax", <<0>>, None, C2of, NoKind, None, FALSE)}

\* Lists assigned to coeffs.
CoeffsArgs == {<<Bool(TRUE)>>, <<C3of, Bool(FALSE)>>, <<None, C2of>>}

\* Grids handed to set_all_tlist when k pulses are held.
ValidGrids(k) ==
    {NdArray(GA), NdArray(G50)}
    \cup (IF k = 2 THEN {GridList(<<NdArray(G50), NdArray(GA)>>)} ELSE {})

Psi0 == [t |-> "Qobj", name |-> "psi0"]

NoKwargs == [keys |-> {}, args |-> None, c_ops |-> None]

\* (init_state, analytical, states, noisy, solver, kwargs) handed to run_state
StateArgs ==
    {<<Psi0, FALSE, None, TRUE, "mesolve", NoKwargs>>,
     <<Psi0, FALSE, None, FALSE, "mcsolve",
       [keys |-> {"args", "c_ops"}, args |-> Dict({"w"}),
        c_ops |-> PyList(<<"c1">>)]>>,
     <<None, FALSE, Psi0, TRUE, "mcsolve",
       [keys |-> {"options"}, args |-> None, c_ops |-> None]>>,
     <<None, FALSE, None, TRUE, "mesolve", NoKwargs>>,
     <<Psi0, FALSE, None, TRUE, "mesolve",
       [keys |-> {"H"}, args |-> None, c_ops |-> None]>>,
     <<Psi0, FALSE, None, FALSE, "mesolve",
       [keys |-> {"tlist", "args"}, args |-> Dict({"w"}), c_ops |-> None]>>,
     <<Psi0, FALSE, None, FALSE, "essolve", NoKwargs>>,
     <<Psi0, TRUE, None, TRUE, "mesolve", NoKwargs>>}

NextValid ==
    \/ file = None /\ Len(pulses) < MaxValid
       /\ AddControl(SigmaX, None, FALSE, None)
    \/ file = None /\ Len(pulses) < MaxValid
       /\ \E p \in ValidPulses : AddPulse(p)
    \/ file = None /\ RemovePulse(Num(0), None)
    \/ file = None /\ \E c \in CoeffsArgs : SetCoeffs(c)
    \/ file = None /\ \E g \in ValidGrids(Len(pulses)) : SetAllTlist(g)
    \/ file = None /\ \E m \in {"discrete", "continuous"} : SetPulseMode(m)
    \/ file = None /\ CheckPulses
    \/ file = None /\ \E f \in {None, NdArray(GA)} : GetFullCoeffs(f)
    \/ file = None
       /\ \E a \in {<<None, FALSE>>, <<None, TRUE>>, <<Dict({"w"}), FALSE>>} :
             GetQobjevo(a[1], a[2])
    \/ file = None /\ \E i \in {None, Psi0} : RunAnalytically(i)
    \/ file = None
       /\ \E a \in StateArgs : RunState(a[1], a[2], a[3], a[4], a[5], a[6])
    \/ file = None /\ \E inctime \in BOOLEAN : SaveCoeff(inctime)

SpecValid == Init /\ [][NextValid]_vars

(***************************************************************************)
(* Properties of the validator and of what calls it (SpecValid).           *)
(***************************************************************************)
\* The rule a pulse has to satisfy: a coefficient that is absent or a       
\* bool; or numbers on a grid of length L, L-1 or L of them for step_func,
\* L of them for any other kind.
WellFormed(p) ==
    \/ p.coeff = None
    \/ p.coeff.t = "bool"
    \/ /\ p.coeff.t = "ndarray"
       /\ p.tlist # None
       /\ p.tlist.t = "ndarray"
       /\ LET L == Len(p.tlist.v)
              n == Len(p.coeff.v)
          IN  IF p.spline_kind = "step_func" THEN n \in {L - 1, L} ELSE n = L

Offending(ps) == {i \in DOMAIN ps : ~WellFormed(ps[i])}

Mutators ==
    {"add_control", "add_pulse", "remove_pulse", "set_all_tlist", "coeffs",
     "pulse_mode"}

Consumers == {"get_full_coeffs", "get_qobjevo", "save_coeff", "run_analytically"}

\* run_state calls that its own argument checks turn down
Rejected(call) ==
    \/ call.init_state = None /\ call.states = None
    \/ "H" \in call.kwargs.keys
    \/ "tlist" \in call.kwargs.keys

\* C5: no operation that changes the pulses raises the validation error,
\* whatever pulses it leaves; and when some pulse is not well-formed,
\* get_full_coeffs, get_qobjevo, save_coeff and run_analytically raise the
\* validation error and return nothing and write no file, and run_state
\* without analytical assembles no generator and calls no solver, raising
\* the validation error unless its own argument check has raised first.
C5_LazyValidation ==
    /\ last.op \in Mutators => last.err # "validation"
    /\ (last.op \in Consumers /\ Offending(old.pulses) # {}) =>
          /\ last.err = "validation"
          /\ "ret" \notin DOMAIN last
          /\ file = None
    /\ (last.op = "run_state" /\ ~last.analytical /\ Offending(old.pulses) # {}) =>
          /\ last.err = IF Rejected(last) THEN "usage" ELSE "validation"
          /\ "ret" \notin DOMAIN last
          /\ last.calls = <<>>
          /\ ~last.assembled

\* run_state, its arguments in order, has stopped at the validation error
\* on pulses that assigning coeffs had left not well-formed.
C5_Witness ==
    /\ last.op = "run_state"
    /\ ~last.analytical
    /\ ~Rejected(last)
    /\ last.solver \in Solvers
    /\ last.err = "validation"
    /\ last.calls = <<>>
    /\ \E i \in DOMAIN pulses :
          ~WellFormed(pulses[i]) /\ pulses[i].coeff = C3of
                                 /\ pulses[i].tlist = NdArray(G50)

\* What get_full_coeffs can resample: no pulse has a grid but no coefficient.
Resamplable(ps) ==
    \A i \in DOMAIN ps : ps[i].coeff = None => ps[i].tlist = None

\* C10: get_full_coeffs gives each pulse with numbers as coefficient the
\* row that resampling by the pulse's own kind gives: hold-previous-value
\* for step_func, the cubic spline for cubic, also under a Processor of
\* the other kind.  (Stated for pulses the validator accepts, none with a
\* grid but no coefficient, and a grid to resample onto.)
C10_ResampledByOwnKind ==
    (/\ last.op = "get_full_coeffs"
     /\ pulses # <<>>
     /\ Offending(pulses) = {}
     /\ Resamplable(pulses)
     /\ (last.full_tlist # None \/ FullTlist(pulses, DefaultTol) # None)) =>
        /\ last.err = "none"
        /\ LET full == IF last.full_tlist = None
                       THEN FullTlist(pulses, DefaultTol).v
                       ELSE last.full_tlist.v
           IN  \A i \in DOMAIN pulses :
                 pulses[i].coeff.t = "ndarray" =>
                    last.ret.v[i] = FillCoeff(pulses[i].coeff.v, pulses[i].tlist.v,
                                              full, pulses[i].spline_kind).row

\* C11: when the validator accepts the pulses and some pulse has a grid,
\* get_full_coeffs returns, without error, one row per pulse, each as long
\* as the grid resampled onto; the row of a pulse without coefficient is
\* all 0 (whether the pulse has a grid or not), that of a True coefficient
\* all 1, that of a False coefficient all 0.  (Stated for pulses of the
\* Processor's own kind, where the kind resampled by is not in question.)
C11_FullCoeffsShape ==
    (/\ last.op = "get_full_coeffs"
     /\ Offending(pulses) = {}
     /\ FullTlist(pulses, DefaultTol) # None
     /\ \A i \in DOMAIN pulses : pulses[i].spline_kind = spline_kind) =>
        /\ last.err = "none"
        /\ Len(last.ret.v) = Len(pulses)
        /\ LET grid == IF last.full_tlist = None
                       THEN FullTlist(pulses, DefaultTol).v
                       ELSE last.full_tlist.v
           IN  \A i \in DOMAIN pulses :
                 /\ Len(last.ret.v[i]) = Len(grid)
                 /\ pulses[i].coeff = None =>
                       \A n \in DOMAIN grid : last.ret.v[i][n] = Num(0)
                 /\ pulses[i].coeff = Bool(TRUE) =>
                       \A n \in DOMAIN grid : last.ret.v[i][n] = Num(1)
                 /\ pulses[i].coeff = Bool(FALSE) =>
                       \A n \in DOMAIN grid : last.ret.v[i][n] = Num(0)

(***************************************************************************)
(* SpecEvolve: a Processor with pulses, drift and noise is handed to the   *)
(* noise pipeline, assembled into a generator and run.  At most MaxEvolve  *)
(* pulses are held.                                                        *)
(***************************************************************************)
MaxEvolve == 2

\* Pulses handed to add_pulse: one the validator accepts, one it does not.
EvolvePulses ==
    {Pulse("sigmax", <<0>>, NdArray(GA), C3of, NoKind, None, FALSE),
     Pulse("sigmax", <<0>>, None, C2of, NoKind, None, FALSE)}

COp == [t |-> "Qobj", name |-> "c1", iadd |-> "raises"]
COpQuiet == [t |-> "Qobj", name |-> "c1", iadd |-> "returns"]

\* (init_state, analytical, states, noisy, solver, kwargs) handed to run_state
EvolveArgs ==
    {<<Psi0, FALSE, None, TRUE, "mesolve", NoKwargs>>,
     <<Psi0, FALSE, None, FALSE, "mcsolve", NoKwargs>>,
     <<None, FALSE, Psi0, TRUE, "mcsolve",
       [keys |-> {"options"}, args |-> None, c_ops |-> None]>>,
     <<None, FALSE, None, TRUE, "mesolve", NoKwargs>>,
     <<Psi0, FALSE, None, TRUE, "mesolve",
       [keys |-> {"H"}, args |-> None, c_ops |-> None]>>,
     <<Psi0, FALSE, None, FALSE, "mcsolve",
       [keys |-> {"tlist"}, args |-> None, c_ops |-> None]>>,
     <<Psi0, FALSE, None, TRUE, "mesolve",
       [keys |-> {"args", "c_ops"}, args |-> Dict({"w"}),
        c_ops |-> PyList(<<COp>>)]>>,
     <<Psi0, FALSE, None, TRUE, "mesolve",
       [keys |-> {"c_ops"}, args |-> None, c_ops |-> COp]>>,
     <<Psi0, FALSE, None, TRUE, "mcsolve",
       [keys |-> {"c_ops"}, args |-> None, c_ops |-> COpQuiet]>>,
     <<Psi0, FALSE, None, FALSE, "essolve", NoKwargs>>,
     <<Psi0, TRUE, None, TRUE, "mesolve", NoKwargs>>,
     <<None, TRUE, Psi0, FALSE, "mesolve", NoKwargs>>,
     <<Psi0, TRUE, None, TRUE, "mesolve",
       [keys |-> {"options"}, args |-> None, c_ops |-> None]>>}

\* (args, noisy) handed to get_qobjevo
QobjevoArgs ==
    {<<None, FALSE>>, <<None, TRUE>>, <<Dict({"w"}), TRUE>>,
     <<Dict({"_step_func_coeff"}), FALSE>>}

NextEvolve ==
    \/ Len(pulses) < MaxEvolve /\ AddControl(SigmaX, None, FALSE, None)
    \/ Len(pulses) < MaxEvolve /\ \E p \in EvolvePulses : AddPulse(p)
    \/ RemovePulse(Num(0), None)
    \/ AddDrift(SigmaX, Num(0), FALSE)
    \/ \E n \in {"relaxation", "random", NotANoise} : AddNoise(n)
    \/ \E device_noise \in BOOLEAN, with_drift \in BOOLEAN, r \in BOOLEAN :
          GetNoisyPulses(device_noise, with_drift, r)
    \/ \E a \in QobjevoArgs : GetQobjevo(a[1], a[2])
    \/ \E i \in {None, Psi0} : RunAnalytically(i)
    \/ \E a \in EvolveArgs : RunState(a[1], a[2], a[3], a[4], a[5], a[6])

SpecEvolve == Init /\ [][NextEvolve]_vars

(***************************************************************************)
(* Properties of the noise pipeline, the generator and the runs            *)
(* (SpecEvolve).                                                           *)
(***************************************************************************)
\* C12: get_noisy_pulses leaves Processor.pulses as it was (the same pulses
\* in the same order with the same fields), hands the noise pipeline a deep
\* copy of them and not the stored list, and returns a list that is not
\* the stored list.
C12_NoisyPulsesFresh ==
    last.op = "get_noisy_pulses" =>
        /\ pulses = old.pulses
        /\ last.handed.ref # "self.pulses"
        /\ last.handed.v = old.pulses
        /\ last.ret.ref # "self.pulses"

\* The pipeline was handed two pulses, returned the list it was handed,
\* and the drift was added to that list.
C12_Witness ==
    /\ last.op = "get_noisy_pulses"
    /\ Len(pulses) = 2
    /\ noise # <<>>
    /\ last.drift /\ last.device_noise
    /\ last.ret.ref = last.handed.ref
    /\ Len(last.ret.v) = 4

\* The drift terms of the Processor are among the terms of a generator.
DriftIn(gen) ==
    \/ drift = <<>>
    \/ \E k \in DOMAIN gen.terms :
          /\ "t" \in DOMAIN gen.terms[k]
          /\ gen.terms[k].t = "drift"
          /\ gen.terms[k].terms = drift

\* C13: every generator the Processor builds contains the drift terms: the
\* one get_qobjevo returns, for noisy=False as for noisy=True, the one
\* run_state hands to the solver, and the generator of every step of
\* run_analytically.  (Generators of a Processor with pulses.)
C13_DriftInGenerators ==
    /\ (last.op = "get_qobjevo" /\ last.err = "none" /\ pulses # <<>>) =>
          DriftIn(last.ret[1])
    /\ (last.op = "run_state" /\ last.calls # <<>> /\ pulses # <<>>) =>
          DriftIn(last.calls[1].H)
    /\ (last.op = "run_analytically" /\ last.err = "none") =>
          \A n \in DOMAIN last.ret :
             last.ret[n].t = "U" => last.ret[n].drift = drift

\* The key under which a generator's argument map tells that its
\* coefficients are step functions.
ProtectedKeys == {"_step_func_coeff"}

\* C14: get_qobjevo raises, and returns nothing, when the args it is given
\* hold a protected key, instead of merging them into the generator's
\* args; and with noisy=False the collapse operators it returns are none.
\* (Calls on pulses the validator accepts.)
C14_ProtectedArgsRejected ==
    (last.op = "get_qobjevo" /\ pulses # <<>> /\ Offending(pulses) = {}) =>
        /\ (last.args # None /\ last.args.keys \cap ProtectedKeys # {}) =>
              last.err # "none" /\ "ret" \notin DOMAIN last
        /\ (~last.noisy /\ last.err = "none") => last.ret[2] = <<>>

\* The state run_state goes on with: init_state, or states when that is None.
GivenState(call) ==
    IF call.init_state = None THEN call.states ELSE call.init_state

C16_ReservedKeywordsRejected ==
    (/\ last.op = "run_state"
     /\ ~last.analytical
     /\ ("H" \in last.kwargs.keys \/ "tlist" \in last.kwargs.keys)) =>
        /\ last.err = "usage"
        /\ ~last.assembled
        /\ last.calls = <<>>
        /\ "ret" \notin DOMAIN last
        /\ pulses = old.pulses
        /\ drift = old.drift
        /\ noise = old.noise

\* run_state has turned down a tlist keyword on a Processor whose pulses,
\* drift and noise it could have run.
C16_Witness ==
    /\ last.op = "run_state"
    /\ ~last.analytical
    /\ last.kwargs.keys = {"tlist"}
    /\ last.init_state # None
    /\ last.err = "usage"
    /\ pulses # <<>> /\ Offending(pulses) = {}
    /\ drift # <<>>
    /\ noise # <<>>

\* run_state calls that get as far as the generator: not analytical, not
\* turned down for their arguments, naming one of the two solvers, on
\* pulses the validator accepts.
Dispatching ==
    /\ last.op = "run_state"
    /\ ~last.analytical
    /\ ~Rejected(last)
    /\ last.solver \in Solvers
    /\ old.pulses # <<>>
    /\ Offending(old.pulses) = {}

\* What get_qobjevo gives such a call.
Assembled ==
    Qobjevo(old.pulses, old.noise, old.drift,
            IF "args" \in last.kwargs.keys THEN last.kwargs.args ELSE None,
            last.noisy).ret

\* C17: such a call calls one solver, once, the one its solver argument
\* names, with the generator assembled, that generator's tlist and the
\* state given, and returns what the solver returns.
C17_OneSolverCall ==
    Dispatching =>
        /\ last.err = "none"
        /\ Len(last.calls) = 1
        /\ last.calls[1].solver = last.solver
        /\ last.calls[1].H = Assembled[1]
        /\ last.calls[1].tlist = Assembled[1].tlist
        /\ last.calls[1].state = GivenState(last)
        /\ last.ret = [t |-> "Result", of |-> last.calls[1]]

\* The collapse operators the caller supplies: a list of them, one
\* operator, or none.
Supplied(kwargs) ==
    IF "c_ops" \notin kwargs.keys THEN <<>>
    ELSE IF kwargs.c_ops.t = "list" THEN kwargs.c_ops.v
    ELSE <<kwargs.c_ops>>

\* C18: the collapse operators such a call hands to the solver are those
\* supplied followed by those of the system, each once, whether a list,
\* one operator or nothing was supplied.
C18_COpsMerged ==
    Dispatching =>
        /\ last.calls # <<>>
        /\ last.calls[1].c_ops = PyList(Supplied(last.kwargs) \o Assembled[2])

(***************************************************************************)
(* SpecFile: the coefficients of at most MaxFile pulses are written to a   *)
(* file and read back: pulses are added before the file is written, and   *)
(* the file is written once.  The grids share their points, so that every  *)
(* coefficient written is a whole number.                                  *)
(***************************************************************************)
MaxFile == 2

\* Pulses handed to add_pulse.
FilePulses ==
    {Pulse("sigmax", <<0>>, NdArray(GA), C3of, NoKind, None, FALSE),
     Pulse("sigmax", <<0>>, NdArray(GD), C2of, NoKind, None, FALSE),
     Pulse("sigmax", <<0>>, NdArray(GA), C2of, "step_func", None, TRUE)}

NextFile ==
    \/ file = None /\ Len(pulses) < MaxFile
       /\ AddControl(SigmaX, None, FALSE, None)
    \/ file = None /\ Len(pulses) < MaxFile
       /\ \E p \in FilePulses : AddPulse(p)
    \/ RemovePulse(Num(0), None)
    \/ file = None /\ \E inctime \in BOOLEAN : SaveCoeff(inctime)
    \/ \E inctime \in BOOLEAN : ReadCoeff(inctime)
    \/ GetFullCoeffs(None)

SpecFile == Init /\ [][NextFile]_vars

(***************************************************************************)
(* Properties of the coefficient file (SpecFile).                          *)
(***************************************************************************)
\* What save_coeff(f, inctime) writes for pulses ps.
Written(ps, kind, inctime) == SaveCoeffResult(ps, kind, inctime)

\* read_coeff has read, with the flag it was written with, the file that
\* save_coeff writes for the Processor as it was, which has pulses, all
\* accepted by the validator.
RoundTrip ==
    /\ last.op = "read_coeff"
    /\ old.pulses # <<>>
    /\ Offending(old.pulses) = {}
    /\ file # None
    /\ file.inctime = last.inctime
    /\ Written(old.pulses, old.spline_kind, last.inctime).err = "none"
    /\ file.rows = Written(old.pulses, old.spline_kind, last.inctime).data

\* C19: after save_coeff(f, inctime) and read_coeff(f, inctime) with the
\* same flag, get_full_coeffs gives the matrix it gave before the save,
\* for either flag; with inctime=True get_full_tlist gives the grid it
\* gave before, and every pulse now has that grid.
C19_RoundTrip ==
    RoundTrip =>
        /\ last.err = "none"
        /\ FullCoeffs(pulses, spline_kind, None)
              = FullCoeffs(old.pulses, old.spline_kind, None)
        /\ last.inctime =>
              /\ FullTlist(pulses, DefaultTol) = FullTlist(old.pulses, DefaultTol)
              /\ \A i \in DOMAIN pulses :
                    pulses[i].tlist = FullTlist(old.pulses, DefaultTol)

\* The numbers of the file by column: the times (when inctime) and one
\* list of coefficients per further column.
FileTimes(f) == NdArray([n \in DOMAIN f.rows |-> Parse(f.rows[n][1])])

FileCoeffs(f, inctime) ==
    LET from == IF inctime THEN 2 ELSE 1
    IN  PyList([m \in 1..(Len(f.rows[1]) - from + 1) |->
                  NdArray([n \in DOMAIN f.rows |-> Parse(f.rows[n][m + from - 1])])])

\* C20: read_coeff(f, inctime=True) returns the array of times read from
\* the file and the list of coefficients read from it, one entry per
\* pulse; read_coeff(f, inctime=False) returns that list alone.  (Calls
\* that return, on files with one column of coefficients per pulse.)
C20_ReadCoeffReturns ==
    (/\ last.op = "read_coeff"
     /\ file # None
     /\ last.err = "none"
     /\ pulses # <<>>
     /\ Len(file.rows[1]) = Len(pulses) + (IF last.inctime THEN 1 ELSE 0)) =>
        IF last.inctime
        THEN /\ last.ret[1] = FileTimes(file)
             /\ last.ret[2] = FileCoeffs(file, TRUE)
        ELSE last.ret = FileCoeffs(file, FALSE)

(***************************************************************************)
(* SpecFind: pulses, labelled or not, are added, removed and looked up.    *)
(***************************************************************************)
Float(x) == [t |-> "float", v |-> x]

\* What find_pulse is handed: a label, a position, something else.
NameArgs ==
    {Str("a"), Str("c"), Num(0), Num(1), Num(2), Num(0 - 1), None, Float(0)}

NextFind ==
    \/ \E l \in Labels : AddControl(SigmaX, None, FALSE, l)
    \/ \E l \in {Str("a")} : AddControl(SigmaX, PyList(<<0>>), TRUE, l)
    \/ \E i \in {Num(0), Num(1)} : RemovePulse(i, None)
    \/ \E name \in NameArgs : FindPulse(name)

SpecFind == Init /\ [][NextFind]_vars

\* The labels pulse_dict defines.
Defined == IF PulseDict = Absent THEN {} ELSE DOMAIN PulseDict.keys

\* C21: find_pulse handed a string that is no defined label raises the
\* KeyError naming it; handed the position of a pulse it returns that
\* pulse; handed neither a string nor an int it raises TypeError; and the
\* pulse list is as it was.
C21_FindPulse ==
    last.op = "find_pulse" =>
        /\ pulses = old.pulses
        /\ (last.pulse_name.t = "str" /\ last.pulse_name.v \notin Defined) =>
              /\ last.err = "KeyError"
              /\ last.key = last.pulse_name.v
        /\ (last.pulse_name.t = "int" /\ 0 <= last.pulse_name.v
               /\ last.pulse_name.v < Len(pulses)) =>
              /\ last.err = "none"
              /\ last.ret = pulses[last.pulse_name.v + 1]
        /\ last.pulse_name.t \notin {"str", "int"} => last.err = "TypeError"

(***************************************************************************)
(* Properties of run_analytically (SpecValid).                             *)
(***************************************************************************)
\* The product U * x of a propagator and the entry accumulated before it.
Applied(U, x) == [t |-> "product", left |-> U, right |-> x]

\* The step propagators of the pulses, one per interval of the full tlist.
Steps(ps, kind, dr) == Analytically(ps, kind, dr, None).ret

\* C22: run_analytically without a seed returns the step propagators in
\* order; seeded with an initial state it returns that state followed, for
\* each interval, by the step propagator of the interval multiplied from
\* the left onto the entry before it.
C22_SeededEvolution ==
    (last.op = "run_analytically" /\ last.err = "none") =>
        LET steps == Steps(pulses, spline_kind, drift)
        IN  IF last.init_state = None THEN last.ret = steps
            ELSE /\ Len(last.ret) = Len(steps) + 1
                 /\ last.ret[1] = last.init_state
                 /\ \A n \in 2..Len(last.ret) :
                       last.ret[n] = Applied(steps[n - 1], last.ret[n - 1])

\* What run_analytically returns after the seed.
AfterSeed(call) ==
    IF call.init_state = None THEN call.ret ELSE Tail(call.ret)

\* The resampled coefficient of a pulse at the n-th point of the full tlist.
Resampled(pulse, full, n) == CoeffRow(pulse, pulse.spline_kind, full).row[n]

\* The pulses with the last coefficient of pulse i replaced by x.
WithLast(ps, i, x) ==
    [ps EXCEPT ![i].coeff.v = [@ EXCEPT ![Len(@)] = x]]

\* step_func pulses with as many coefficients as grid points
FullLength(ps) ==
    {i \in DOMAIN ps : /\ ps[i].spline_kind = "step_func"
                       /\ ps[i].coeff # None /\ ps[i].coeff.t = "ndarray"
                       /\ ps[i].tlist # None /\ ps[i].tlist.t = "ndarray"
                       /\ Len(ps[i].coeff.v) = Len(ps[i].tlist.v)}

\* C23: run_analytically returns one step propagator per pair of
\* neighbouring points of the full tlist, in order, the n-th over the step
\* from t_n to t_(n+1) with every control scaled by its resampled
\* coefficient at t_n, for step_func as for cubic; and the last
\* coefficient of a step_func pulse with as many coefficients as grid
\* points has no effect on what is returned.  (Stated for pulses of the
\* Processor's own kind.)
C23_LeftEndpointSteps ==
    (/\ last.op = "run_analytically"
     /\ last.err = "none"
     /\ \A i \in DOMAIN pulses : pulses[i].spline_kind = spline_kind) =>
        LET full == FullTlist(pulses, DefaultTol)
            steps == AfterSeed(last)
        IN  /\ Len(steps) = Len(full.v) - 1
            /\ \A n \in DOMAIN steps :
                  /\ steps[n].t = "U"
                  /\ steps[n].dt = full.v[n + 1] - full.v[n]
                  /\ steps[n].drift = drift
                  /\ steps[n].ctrls =
                        [m \in DOMAIN pulses |->
                           <<Resampled(pulses[m], full, n), pulses[m].qobj>>]
            /\ \A i \in FullLength(pulses), x \in {0, 1} :
                  Analytically(WithLast(pulses, i, x), spline_kind, drift,
                               last.init_state)
                     = [err |-> "none", ret |-> last.ret]

\* C30: run_analytically on a Processor none of whose pulses has a time
\* grid, or that has no pulse, returns without error a list with no step
\* propagator: the initial state alone if one was given, the empty list
\* otherwise.  (Stated for pulses the validator accepts.)
C30_NoGridNoSteps ==
    (/\ last.op = "run_analytically"
     /\ Offending(pulses) = {}
     /\ FullTlist(pulses, DefaultTol) = None) =>
        /\ last.err = "none"
        /\ last.ret = IF last.init_state = None THEN <<>>
                      ELSE <<last.init_state>>

(***************************************************************************)
(* Further properties of the pulse list (Spec).                            *)
(***************************************************************************)
\* C26: remove_pulse(indices=I) leaves the caller's I as it was: the same
\* elements in the same order.  (Stated for an I of distinct positions of
\* pulses, where the call removes them.)
C26_IndicesUntouched ==
    (/\ last.op = "remove_pulse"
     /\ last.indices # None
     /\ ValidIndices(last.indices, Len(old.pulses))
     /\ last.err = "none") =>
        last.indices_after = last.indices

\* C27: remove_pulse with neither indices nor label removes no pulse.
C27_NothingNamedNothingRemoved ==
    (last.op = "remove_pulse" /\ last.indices = None /\ last.label = None) =>
        pulses = old.pulses

\* The label made of a given label and a target list: label + "_" + str(targets)
LabelWithTargets(label, targets) ==
    [t |-> "str", v |-> label.v, targets |-> targets]

\* C28: add_control with cyclic_permutation and a label gives the N pulses
\* it creates labels that differ from one another, each made of the given
\* label and the pulse's own rotated targets; with label None every pulse
\* it creates has label None.
C28_CyclicLabelsDistinct ==
    (last.op = "add_control" /\ last.err = "none" /\ last.cyclic) =>
        LET new == (Len(old.pulses) + 1)..Len(pulses)
        IN  IF last.label = None
            THEN \A k \in new : pulses[k].label = None
            ELSE /\ \A k \in new :
                       pulses[k].label
                          = LabelWithTargets(last.label, pulses[k].targets)
                 /\ \A j \in new, k \in new :
                       j # k => pulses[j].label # pulses[k].label

(***************************************************************************)
(* Further properties of the noise pipeline and the generator              *)
(* (SpecEvolve).                                                           *)
(***************************************************************************)
\* C24: every collapse generator get_qobjevo(noisy=True) returns is on the
\* time grid of the composite generator it returns with them, the grid
\* run_state hands the solver as tlist, also when the noise has given the
\* pulses points that no pulse of the Processor has.
C24_OneTimeAxis ==
    (last.op = "get_qobjevo" /\ last.noisy /\ last.err = "none"
        /\ pulses # <<>>) =>
        \A k \in DOMAIN last.ret[2] : last.ret[2][k].tlist = last.ret[1].tlist

\* An object the Processor holds: its pulse list, one of its pulses, its
\* Drift.
Owned(x) == "ref" \in DOMAIN x /\ x.ref \in {"self.pulses", "self.drift"}

\* C29: no element of the list get_noisy_pulses returns is an object the
\* Processor holds; with drift=True the drift entry is a copy of
\* Processor.drift.
C29_NoOwnedElement ==
    last.op = "get_noisy_pulses" =>
        \A k \in DOMAIN last.ret.v : ~Owned(last.ret.v[k])

(***************************************************************************)
(* SpecPure: the validator, get_full_tlist and get_full_coeffs are called  *)
(* on pulses with grids and coefficients, well-formed or not.  At most     *)
(* MaxPure pulses are held.                                                *)
(***************************************************************************)
MaxPure == 2

NextPure ==
    \/ Len(pulses) < MaxPure /\ AddControl(SigmaX, None, FALSE, None)
    \/ Len(pulses) < MaxPure /\ \E p \in ValidPulses : AddPulse(p)
    \/ RemovePulse(Num(0), None)
    \/ \E c \in CoeffsArgs : SetCoeffs(c)
    \/ \E g \in ValidGrids(Len(pulses)) : SetAllTlist(g)
    \/ \E m \in {"discrete", "continuous"} : SetPulseMode(m)
    \/ CheckPulses
    \/ \E tol \in {0, DefaultTol} : GetFullTlist(tol)
    \/ \E f \in {None, NdArray(GA)} : GetFullCoeffs(f)

SpecPure == Init /\ [][NextPure]_vars

Readers == {"_is_pulses_valid", "get_full_tlist", "get_full_coeffs"}

\* What a reader has returned or raised.
Outcome(call) ==
    [k \in DOMAIN call \cap {"err", "ret", "id"} |-> call[k]]

\* What the same call returns or raises in the state it has left.
Again(call) ==
    IF call.op = "_is_pulses_valid" THEN IsPulsesValid(pulses)
    ELSE IF call.op = "get_full_tlist"
    THEN [err |-> "none", ret |-> FullTlist(pulses, call.tol)]
    ELSE FullCoeffs(pulses, spline_kind, call.full_tlist)

====
